---------------------------- MODULE Spec2Model ----------------------------
(***************************************************************************)
(* A model of the agent tool plug-ins of KathanS/ai-agenttools:            *)
(*   - ShellTool.run_shell           (src/Tools/shell_tool.py)             *)
(*   - FileIOTools                   (src/Tools/file_io_tools.py)          *)
(*   - ExcelTools                    (src/agenttools/excel_tools.py)       *)
(*   - the error-handling skeleton of every tool function                 *)
(*   - the chat loop of the demo     (src/examples/chat_demo.py)           *)
(*                                                                         *)
(* Text is modelled as a sequence of one-character strings, so that        *)
(* trimming, lower-casing, substring search, newline translation and byte  *)
(* lengths are computed and not assumed.  Python's None is the record      *)
(* None; every other Python value is a record tagged with its type.        *)
(***************************************************************************)
EXTENDS Integers, Sequences, FiniteSets, TLC

VARIABLES
    fs,        \* the filesystem: path -> directory, text file or workbook
    last,      \* the tool call made last: its name and its arguments
    result,    \* the value that call returned to its caller
    started,   \* whether that call started a subprocess
    escaped,   \* whether that call let an exception reach its caller
    calls,     \* the write_cell calls that run at the same time: for each
               \* caller the statement it is at and its local variables
    chat       \* the demo chat loop: the statement it is at, its chat
               \* history and its local variables

vars == <<fs, last, result, started, escaped, calls, chat>>

(***************************************************************************)
(* Python values                                                           *)
(***************************************************************************)
None == [t |-> "none"]

PyStr(s) == [t |-> "str", v |-> s]

PyInt(n) == [t |-> "int", v |-> n]

\* a float, kept exactly as the decimal  num / 10^scale
PyFloat(n, k) == [t |-> "float", v |-> n, scale |-> k]

(***************************************************************************)
(* The filesystem.  A path is the sequence of its components; the empty    *)
(* sequence is the path "", which as a directory name stands for the       *)
(* working directory.                                                      *)
(***************************************************************************)
Absent == [kind |-> "absent"]

Dir == [kind |-> "dir"]

File(data) == [kind |-> "file", data |-> data]

\* the paths the filesystem holds
FsPaths == { <<"d">>, <<"d","f">> }

NoCall == [op |-> "none"]

NoResult == [none |-> TRUE]

\* no tool has been called yet and the working directory is empty
\* the callers of write_cell that run at the same time
Callers == {1, 2}

\* a caller that has not called write_cell
NotCalled == [pc |-> "idle"]

\* a message of the chat history: its role, who added it (the loop of main
\* or the completion service) and its text
Message(role, by, text) == [role |-> role, by |-> by, text |-> text]

\* the text of the system message, which the model does not spell out
system_msg == <<"s">>

\* chat_history = ChatHistory(system_message=system_msg), in front of the
\* loop's first statement
ChatStart ==
    [pc |-> "input",
     history |-> << Message("system", "main", system_msg) >>,
     user_input |-> <<>>,
     response |-> <<>>,
     requests |-> 0,
     rounds |-> 0,
     turns |-> 0]

Init ==
    /\ fs = [p \in FsPaths |-> Absent]
    /\ last = NoCall
    /\ result = NoResult
    /\ started = FALSE
    /\ escaped = FALSE
    /\ calls = [p \in Callers |-> NotCalled]
    /\ chat = ChatStart

(***************************************************************************)
(* Text helpers                                                            *)
(***************************************************************************)
UpperLetters == <<"A","B","C","D","E","F","G","H","I","J","K","L","M",
                  "N","O","P","Q","R","S","T","U","V","W","X","Y","Z">>

LowerLetters == <<"a","b","c","d","e","f","g","h","i","j","k","l","m",
                  "n","o","p","q","r","s","t","u","v","w","x","y","z">>

\* the characters str.strip() removes
Whitespace == {" ", "\t", "\n", "\r"}

\* the lower-case letter of each upper-case letter
LowerOf ==
    [c \in {UpperLetters[i] : i \in 1..26} |->
        LowerLetters[CHOOSE i \in 1..26 : UpperLetters[i] = c]]

LowerChar(c) == IF c \in DOMAIN LowerOf THEN LowerOf[c] ELSE c

\* str.lower()
Lower(s) == [i \in 1..Len(s) |-> LowerChar(s[i])]

\* str.strip()
Strip(s) ==
    LET keep == {i \in 1..Len(s) : s[i] \notin Whitespace}
    IN  IF keep = {} THEN <<>>
        ELSE LET lo == CHOOSE i \in keep : \A j \in keep : i <= j
                 hi == CHOOSE i \in keep : \A j \in keep : j <= i
             IN  SubSeq(s, lo, hi)

\* Python's  p in s  for two strings
Contains(s, p) ==
    \E i \in 0..(Len(s) - Len(p)) : \A j \in 1..Len(p) : s[i + j] = p[j]

(***************************************************************************)
(* ShellTool.run_shell                                                     *)
(***************************************************************************)
deny_patterns ==
    << <<"r","e","m","o","v","e","-","i","t","e","m"," ","-","r","e","c","u","r","s","e">>,
       <<"r","m"," ","-","r","f">>,
       <<"r","d"," ","/","s">> >>

\* command or ""
OrEmpty(command) == IF command = None THEN <<>> ELSE command.v

cmd_lc_NoLower(command) == Strip(OrEmpty(command))

\* cmd_lc = (command or "").strip().lower()
cmd_lc(command) == Lower(Strip(OrEmpty(command)))

\* any(p in cmd_lc for p in deny_patterns)
Denied(command) ==
    \E k \in 1..Len(deny_patterns) : Contains(cmd_lc(command), deny_patterns[k])

BlockedResult(command) ==
    [error   |-> "Command blocked by safety policy",
     command |-> command,
     reason  |-> "matches disallowed destructive pattern"]

ShellError_WithExitCode(e) == [error |-> e, exit_code |-> -1]

\* json.dumps({"error": str(e)})
ShellError(e) == [error |-> e]

ShellCompleted(code, cwd) ==
    [exit_code |-> code, stdout |-> "stdout", stderr |-> "stderr",
     cwd |-> IF cwd = None THEN PyStr(<<>>) ELSE cwd]


(***************************************************************************)
(* The exceptions the library calls raise, and Python's class hierarchy    *)
(* over them.  Every one of them is a subclass of Exception.               *)
(***************************************************************************)
Exceptions ==
    {"TypeError", "ValueError", "JSONDecodeError", "OSError",
     "FileNotFoundError", "FileExistsError", "IsADirectoryError",
     "NotADirectoryError", "TimeoutExpired", "KeyError", "AttributeError",
     "ImportError", "RuntimeError", "BadZipFile"}

\* the direct base class of each exception
BaseOf(e) ==
    CASE e = "JSONDecodeError" -> "ValueError"
      [] e \in {"FileNotFoundError", "FileExistsError", "IsADirectoryError",
                "NotADirectoryError"} -> "OSError"
      [] e = "TimeoutExpired" -> "SubprocessError"
      [] OTHER -> "Exception"

\* issubclass(e, c), for the three levels of hierarchy above
IsSubclass(e, c) ==
    \/ e = c
    \/ BaseOf(e) = c
    \/ BaseOf(BaseOf(e)) = c

(***************************************************************************)
(* subprocess.run(["bash", "-c", command], timeout=timeout_sec, cwd=cwd)   *)
(* env is what the operating system does with the call: whether the        *)
(* working directory exists, how long the process runs, its exit code.     *)
(***************************************************************************)
subprocess_run(command, timeout_sec, cwd, env) ==
    IF command = None
    THEN [raised |-> "TypeError", started |-> FALSE, code |-> 0]
    ELSE IF cwd # None /\ ~env.cwd_exists
    THEN [raised |-> "FileNotFoundError", started |-> FALSE, code |-> 0]
    ELSE IF env.duration >= timeout_sec
    THEN [raised |-> "TimeoutExpired", started |-> TRUE, code |-> 0]
    ELSE [raised |-> "none", started |-> TRUE, code |-> env.code]

\* cwd or None
OrNone(cwd) == IF cwd = None \/ cwd.v = <<>> THEN None ELSE cwd

\* the except clauses of run_shell
run_shell_handlers == {"Exception"}

\* whether one of the except clauses  hs  catches exception  e
Caught(e, hs) == \E h \in hs : IsSubclass(e, h)

run_shell(command, timeout_sec, cwd, env) ==
    IF Denied(command)
    THEN [result |-> BlockedResult(command), started |-> FALSE, escaped |-> FALSE]
    ELSE LET proc == subprocess_run(command, timeout_sec, OrNone(cwd), env)
         IN  IF proc.raised = "none"
             THEN [result |-> ShellCompleted(proc.code, OrNone(cwd)),
                   started |-> proc.started, escaped |-> FALSE]
             ELSE IF Caught(proc.raised, run_shell_handlers)
             THEN [result |-> ShellError(proc.raised),
                   started |-> proc.started, escaped |-> FALSE]
             ELSE [result |-> [raised |-> proc.raised],
                   started |-> proc.started, escaped |-> TRUE]

(***************************************************************************)
(* The commands, time-outs and environments the model calls run_shell with *)
(***************************************************************************)
CommandPrefixes == { <<>>, <<" ">> }

CommandCores ==
    { <<"r","m"," ","-","r","f">>,
      <<"R","M"," ","-","R","F">>,
      <<"r","d"," ","/","s">>,
      <<"R","d"," ","/","S">>,
      <<"R","e","m","o","v","e","-","I","t","e","m"," ","-","R","e","c","u","r","s","e">>,
      <<"r","m"," ","-","r">>,
      <<"r","m"," "," ","-","r","f">>,
      <<"r","d"," ","/","q">>,
      <<"l","s">> }

CommandSuffixes == { <<>>, <<" ","/">> }

Commands ==
    {None} \cup
    {PyStr(p \o c \o x) : p \in CommandPrefixes, c \in CommandCores, x \in CommandSuffixes}

MaxDuration == 1

Timeouts == 0..(MaxDuration + 1)

Cwds == {None, PyStr(<<>>), PyStr(<<"/","w">>)}

ExitCodes == {0, 1}

ProcEnvs == [cwd_exists : BOOLEAN, duration : 0..MaxDuration, code : ExitCodes]

RunShell ==
    \E command \in Commands, timeout_sec \in Timeouts, cwd \in Cwds, env \in ProcEnvs :
        LET r == run_shell(command, timeout_sec, cwd, env)
        IN  /\ last' = [op |-> "run_shell", command |-> command]
            /\ result' = r.result
            /\ started' = r.started
            /\ escaped' = r.escaped
            /\ UNCHANGED <<fs, calls, chat>>

NextShell == RunShell

SpecShell == Init /\ [][NextShell]_vars

(***************************************************************************)
(* Properties of run_shell                                                 *)
(***************************************************************************)
\* the three substrings the deny list is documented to block
ClaimedPatterns ==
    { <<"r","e","m","o","v","e","-","i","t","e","m"," ","-","r","e","c","u","r","s","e">>,
      <<"r","m"," ","-","r","f">>,
      <<"r","d"," ","/","s">> }

\* the command, trimmed and lower-cased, contains one of the substrings
ClaimedDestructive(command) ==
    /\ command # None
    /\ \E p \in ClaimedPatterns : Contains(Lower(Strip(command.v)), p)

\* C1: a command that, trimmed and lower-cased, contains 'remove-item
\* -recurse', 'rm -rf' or 'rd /s' gets the error 'Command blocked by safety
\* policy', and no subprocess is started for that call, in whatever letter
\* case the command is written.
C1_DenyListBlocks ==
    (last.op = "run_shell" /\ ClaimedDestructive(last.command)) =>
        /\ "error" \in DOMAIN result
        /\ result.error = "Command blocked by safety policy"
        /\ ~started
        /\ ~escaped

\* a destructive command written with upper-case letters was blocked
C1_Witness ==
    /\ last.op = "run_shell"
    /\ ClaimedDestructive(last.command)
    /\ Lower(last.command.v) # last.command.v
    /\ "error" \in DOMAIN result
    /\ result.error = "Command blocked by safety policy"
    /\ ~started

\* C8: every run_shell result is one of two shapes: exit_code, stdout and
\* stderr of a command that was started and ran to completion, or an object
\* with an error key; no result has both exit_code and error.
C8_ResultShapes ==
    last.op = "run_shell" =>
        /\ ~escaped
        /\ \/ /\ {"exit_code", "stdout", "stderr"} \subseteq DOMAIN result
              /\ "error" \notin DOMAIN result
              /\ started
              /\ ~ClaimedDestructive(last.command)
           \/ /\ "error" \in DOMAIN result
              /\ "exit_code" \notin DOMAIN result

\* both shapes occur: this one is a command that was started and timed out
\* or could not be started, reported with an error key only
C8_Witness ==
    /\ last.op = "run_shell"
    /\ ~ClaimedDestructive(last.command)
    /\ DOMAIN result = {"error"}

(***************************************************************************)
(* FileIOTools                                                             *)
(***************************************************************************)
\* os.path.dirname(path)
dirname(path) == IF path = <<>> THEN <<>> ELSE SubSeq(path, 1, Len(path) - 1)

\* os.path.abspath(path)
abspath(path) == <<"/cwd">> \o path

\* the node at a path; "" and "." name the working directory
NodeAt(f, path) == IF path = <<>> THEN Dir ELSE f[path]

\* os.mkdir(path)
mkdir(f, path) ==
    IF path = <<>> THEN [raised |-> "FileNotFoundError", fs |-> f]
    ELSE IF NodeAt(f, dirname(path)).kind = "file"
    THEN [raised |-> "NotADirectoryError", fs |-> f]
    ELSE IF NodeAt(f, dirname(path)).kind = "absent"
    THEN [raised |-> "FileNotFoundError", fs |-> f]
    ELSE IF f[path].kind # "absent"
    THEN [raised |-> "FileExistsError", fs |-> f]
    ELSE [raised |-> "none", fs |-> [f EXCEPT ![path] = Dir]]

\* os.makedirs(path, exist_ok=True): make the missing parents, then the
\* directory itself; an error of mkdir is dropped when the directory exists
RECURSIVE makedirs(_, _)
makedirs(f, path) ==
    LET head == dirname(path)
        up   == IF head # <<>> /\ NodeAt(f, head).kind = "absent"
                THEN makedirs(f, head)
                ELSE [raised |-> "none", fs |-> f]
        made == mkdir(up.fs, path)
    IN  IF up.raised \notin {"none", "FileExistsError"} THEN up
        ELSE IF made.raised # "none" /\ NodeAt(up.fs, path).kind = "dir"
        THEN [raised |-> "none", fs |-> up.fs]
        ELSE made

\* os.makedirs(os.path.dirname(path) or ".", exist_ok=True)
make_parent(f, path) ==
    IF dirname(path) = <<>>
    THEN [raised |-> "none", fs |-> f]
    ELSE makedirs(f, dirname(path))

\* the line separator text mode writes for "\n" (a POSIX system: the shell
\* tool of this package runs bash)
linesep == <<"\n">>

\* what text mode writes for a string: every "\n" becomes os.linesep
RECURSIVE TranslateOut(_)
TranslateOut(s) ==
    IF s = <<>> THEN <<>>
    ELSE (IF Head(s) = "\n" THEN linesep ELSE <<Head(s)>>) \o TranslateOut(Tail(s))

\* what text mode reads from a file: "\r\n" and "\r" both become "\n"
RECURSIVE TranslateIn(_)
TranslateIn(s) ==
    IF s = <<>> THEN <<>>
    ELSE IF Head(s) = "\r"
    THEN IF Len(s) >= 2 /\ s[2] = "\n"
         THEN <<"\n">> \o TranslateIn(Tail(Tail(s)))
         ELSE <<"\n">> \o TranslateIn(Tail(s))
    ELSE <<Head(s)>> \o TranslateIn(Tail(s))

\* the error of open(path, mode), or "none"
open_error(f, path) ==
    IF path = <<>> THEN "FileNotFoundError"
    ELSE IF NodeAt(f, dirname(path)).kind = "file" THEN "NotADirectoryError"
    ELSE IF NodeAt(f, dirname(path)).kind = "absent" THEN "FileNotFoundError"
    ELSE IF f[path].kind = "dir" THEN "IsADirectoryError"
    ELSE "none"

\* with open(path, "w", encoding="utf-8") as f: f.write(content)
open_w_write(f, path, content) ==
    IF open_error(f, path) # "none"
    THEN [raised |-> open_error(f, path), fs |-> f]
    ELSE [raised |-> "none",
          fs |-> [f EXCEPT ![path] = File(TranslateOut(content))]]

open_a_write_Truncates(f, path, content) == open_w_write(f, path, content)

\* with open(path, "a", encoding="utf-8") as f: f.write(content)
open_a_write(f, path, content) ==
    IF open_error(f, path) # "none"
    THEN [raised |-> open_error(f, path), fs |-> f]
    ELSE [raised |-> "none",
          fs |-> [f EXCEPT ![path] =
                    File((IF f[path].kind = "file" THEN f[path].data ELSE <<>>)
                         \o TranslateOut(content))]]

\* f.read(n) of a text file: n characters, all of them when n is negative
text_read(text, n) ==
    IF n < 0 \/ n >= Len(text) THEN text ELSE SubSeq(text, 1, n)

\* with open(path, "r", encoding="utf-8", errors="replace") as f: f.read(max_bytes)
open_r_read(f, path, max_bytes) ==
    IF open_error(f, path) # "none"
    THEN [raised |-> open_error(f, path), content |-> <<>>]
    ELSE IF f[path].kind = "absent"
    THEN [raised |-> "FileNotFoundError", content |-> <<>>]
    ELSE [raised |-> "none",
          content |-> text_read(TranslateIn(f[path].data), max_bytes)]

\* the class the except clauses of the FileIOTools functions name
file_io_except == "Exception"

\* the except clauses of the FileIOTools functions
file_io_handlers == {file_io_except}

\* json.dumps({"error": str(e), "path": path}), or the exception itself when
\* no except clause catches it
FileFailure(e, path, f) ==
    IF Caught(e, file_io_handlers)
    THEN [result |-> [error |-> e, path |-> path], fs |-> f, escaped |-> FALSE]
    ELSE [result |-> [raised |-> e], fs |-> f, escaped |-> TRUE]

FileOk(path, f) ==
    [result |-> [status |-> "ok", path |-> abspath(path)], fs |-> f, escaped |-> FALSE]

ensure_dir(f, path) ==
    LET m == makedirs(f, path)
    IN  IF m.raised # "none" THEN FileFailure(m.raised, path, m.fs)
        ELSE FileOk(path, m.fs)

write_file(f, path, content) ==
    LET m == make_parent(f, path)
        w == open_w_write(m.fs, path, content)
    IN  IF m.raised # "none" THEN FileFailure(m.raised, path, m.fs)
        ELSE IF w.raised # "none" THEN FileFailure(w.raised, path, w.fs)
        ELSE FileOk(path, w.fs)

append_file(f, path, content) ==
    LET m == make_parent(f, path)
        w == open_a_write(m.fs, path, content)
    IN  IF m.raised # "none" THEN FileFailure(m.raised, path, m.fs)
        ELSE IF w.raised # "none" THEN FileFailure(w.raised, path, w.fs)
        ELSE FileOk(path, w.fs)

read_file(f, path, max_bytes) ==
    LET r == open_r_read(f, path, max_bytes)
    IN  IF r.raised # "none" THEN FileFailure(r.raised, path, f)
        ELSE [result |-> [status |-> "ok", content |-> r.content,
                          path |-> abspath(path)],
              fs |-> f, escaped |-> FALSE]

(***************************************************************************)
(* The calls the model makes on FileIOTools                                *)
(***************************************************************************)
\* the longest file the model lets a call produce
MaxFileLen == 3

\* the paths passed to the file tools; <<>> is the empty path
PathArgs == FsPaths \cup { <<>> }

\* the texts passed to write_file and append_file: plain, two-byte,
\* carriage-return and line-feed characters
ContentArgs ==
    { <<>>, <<"a">>, <<"é">>, <<"\r">>, <<"a","\r">>, <<"\r","\n">>, <<"é","a">> }

MaxBytesArgs == 0..MaxFileLen

\* the size of the file a call leaves at a path (0 when it leaves none)
SizeAt(f, path) ==
    IF path \in FsPaths /\ f[path].kind = "file" THEN Len(f[path].data) ELSE 0

EnsureDir ==
    \E path \in PathArgs :
        LET r == ensure_dir(fs, path)
        IN  /\ last' = [op |-> "ensure_dir", path |-> path]
            /\ fs' = r.fs
            /\ result' = r.result
            /\ escaped' = r.escaped
            /\ UNCHANGED <<started, calls, chat>>

WriteFile ==
    \E path \in PathArgs, content \in ContentArgs :
        LET r == write_file(fs, path, content)
        IN  /\ SizeAt(r.fs, path) <= MaxFileLen
            /\ last' = [op |-> "write_file", path |-> path, content |-> content]
            /\ fs' = r.fs
            /\ result' = r.result
            /\ escaped' = r.escaped
            /\ UNCHANGED <<started, calls, chat>>

AppendFile ==
    \E path \in PathArgs, content \in ContentArgs :
        LET r == append_file(fs, path, content)
        IN  /\ SizeAt(r.fs, path) <= MaxFileLen
            /\ last' = [op |-> "append_file", path |-> path, content |-> content]
            /\ fs' = r.fs
            /\ result' = r.result
            /\ escaped' = r.escaped
            /\ UNCHANGED <<started, calls, chat>>

ReadFile ==
    \E path \in PathArgs, max_bytes \in MaxBytesArgs :
        LET r == read_file(fs, path, max_bytes)
        IN  /\ last' = [op |-> "read_file", path |-> path, max_bytes |-> max_bytes]
            /\ fs' = r.fs
            /\ result' = r.result
            /\ escaped' = r.escaped
            /\ UNCHANGED <<started, calls, chat>>

NextFile == EnsureDir \/ WriteFile \/ AppendFile \/ ReadFile

SpecFile == Init /\ [][NextFile]_vars

(***************************************************************************)
(* Properties of the file tools                                            *)
(***************************************************************************)
IsOk(r) == "status" \in DOMAIN r /\ r.status = "ok"

\* the number of bytes of the UTF-8 encoding of a character and of a text
Utf8Bytes(c) == IF c = "é" THEN 2 ELSE 1

RECURSIVE Utf8Len(_)
Utf8Len(s) == IF s = <<>> THEN 0 ELSE Utf8Bytes(Head(s)) + Utf8Len(Tail(s))

IsPrefix(p, s) == Len(p) <= Len(s) /\ SubSeq(s, 1, Len(p)) = p

\* C5: when write_file(path, content) returned status ok, a read_file of the
\* same path that follows it, with max_bytes at least the length of content,
\* returns status ok and the content that was written.
C5_WriteThenReadReturnsContent ==
    [][ ( /\ last.op = "write_file"
          /\ IsOk(result)
          /\ last'.op = "read_file"
          /\ last'.path = last.path
          /\ last'.max_bytes >= Len(last.content) )
        => ( IsOk(result') /\ result'.content = last.content ) ]_vars

\* C6: a successful read_file(path, max_bytes) returns a prefix of the text
\* of the file (the text that text mode decodes from it) whose UTF-8
\* encoding is at most max_bytes bytes long.
C6_ReadAtMostMaxBytes ==
    (last.op = "read_file" /\ IsOk(result)) =>
        /\ IsPrefix(result.content, TranslateIn(fs[last.path].data))
        /\ Utf8Len(result.content) <= last.max_bytes

\* the text a file holds, nothing when there is no file at the path
DataAt(f, path) == IF f[path].kind = "file" THEN f[path].data ELSE <<>>

DigitChars == <<"0","1","2","3","4","5","6","7","8","9">>

IsDigit(c) == \E i \in 1..10 : DigitChars[i] = c

DigitVal(c) == (CHOOSE i \in 1..10 : DigitChars[i] = c) - 1

\* the number a run of digits denotes
RECURSIVE DigitsVal(_)
DigitsVal(d) ==
    IF d = <<>> THEN 0
    ELSE DigitsVal(SubSeq(d, 1, Len(d) - 1)) * 10 + DigitVal(d[Len(d)])

AllDigits(d) == \A i \in 1..Len(d) : IsDigit(d[i])

HasSign(t) == t # <<>> /\ Head(t) \in {"+", "-"}

Unsigned(t) == IF HasSign(t) THEN Tail(t) ELSE t

SignOf(t) == IF t # <<>> /\ Head(t) = "-" THEN -1 ELSE 1

\* whether int(value) succeeds: blanks around an optional sign and digits
IntSyntax(value) ==
    LET body == Unsigned(Strip(value))
    IN  body # <<>> /\ AllDigits(body)

\* int(value)
IntOf(value) ==
    PyInt(SignOf(Strip(value)) * DigitsVal(Unsigned(Strip(value))))

\* the position of the first "." of a text, 0 when it has none
DotAt(t) ==
    IF \E i \in 1..Len(t) : t[i] = "."
    THEN CHOOSE i \in 1..Len(t) : t[i] = "." /\ \A j \in 1..(i - 1) : t[j] # "."
    ELSE 0

\* whether float(value) succeeds for a text with a ".": digits on at least
\* one side of the point, blanks and a sign allowed around them
FloatSyntax(value) ==
    LET body == Unsigned(Strip(value))
        dot  == DotAt(body)
        whole == SubSeq(body, 1, dot - 1)
        frac  == SubSeq(body, dot + 1, Len(body))
    IN  /\ dot > 0
        /\ AllDigits(whole)
        /\ AllDigits(frac)
        /\ whole \o frac # <<>>

\* drop the trailing zeros of a decimal  num / 10^scale
RECURSIVE Normal(_, _)
Normal(num, scale) ==
    IF scale > 0 /\ num % 10 = 0 THEN Normal(num \div 10, scale - 1)
    ELSE PyFloat(num, scale)

\* float(value)
FloatOf(value) ==
    LET body == Unsigned(Strip(value))
        dot  == DotAt(body)
        whole == SubSeq(body, 1, dot - 1)
        frac  == SubSeq(body, dot + 1, Len(body))
        f    == Normal(DigitsVal(whole \o frac), Len(frac))
    IN  PyFloat(SignOf(Strip(value)) * f.v, f.scale)

to_number_KeepsText(value) == PyStr(value)

\* write_cell: "Try to convert to number if possible"
to_number(value) ==
    IF Contains(value, <<".">>)
    THEN IF FloatSyntax(value) THEN FloatOf(value) ELSE PyStr(value)
    ELSE IF IntSyntax(value) THEN IntOf(value) ELSE PyStr(value)

\* the decimal digits of a natural number
RECURSIVE NatToStr(_)
NatToStr(n) ==
    IF n < 10 THEN <<DigitChars[n + 1]>>
    ELSE NatToStr(n \div 10) \o <<DigitChars[(n % 10) + 1]>>

IntToStr(n) == IF n < 0 THEN <<"-">> \o NatToStr(-n) ELSE NatToStr(n)

\* 10^k
RECURSIVE Pow10(_)
Pow10(k) == IF k = 0 THEN 1 ELSE 10 * Pow10(k - 1)

\* the digits of n, padded with zeros on the left to k digits
RECURSIVE Padded(_, _)
Padded(n, k) ==
    IF k = 0 THEN <<>>
    ELSE Padded(n \div 10, k - 1) \o <<DigitChars[(n % 10) + 1]>>

\* repr of a float: 1.5, 2.0, -0.25
FloatToStr(num, scale) ==
    LET a == IF num < 0 THEN -num ELSE num
    IN  (IF num < 0 THEN <<"-">> ELSE <<>>)
        \o NatToStr(a \div Pow10(scale)) \o <<".">>
        \o (IF scale = 0 THEN <<"0">> ELSE Padded(a % Pow10(scale), scale))

\* str(value) of a cell value or of an argument
str(v) ==
    CASE v.t = "int"   -> IntToStr(v.v)
      [] v.t = "float" -> FloatToStr(v.v, v.scale)
      [] v.t = "none"  -> <<"N","o","n","e">>
      [] OTHER         -> v.v

(***************************************************************************)
(* ExcelTools: workbooks.  A workbook is the list of its sheet titles, the *)
(* index of the active sheet and, for each sheet, the value of each cell   *)
(* of a grid of MaxRow rows and MaxCol columns.                            *)
(***************************************************************************)
MaxRow == 2

MaxCol == 2

Grid == (1..MaxRow) \X (1..MaxCol)

ColLetters == <<"A","B","C","D","E","F","G","H","I">>

Formula(text) == [t |-> "formula", v |-> text]

EmptySheet == [g \in Grid |-> None]

\* openpyxl.Workbook(): one empty sheet titled "Sheet", which is active
Workbook ==
    [sheets |-> << <<"S","h","e","e","t">> >>, active |-> 1, cells |-> <<EmptySheet>>]

Book(wb) == [kind |-> "book", wb |-> wb]

Max(S) == IF S = {} THEN 0 ELSE CHOOSE x \in S : \A y \in S : y <= x

\* ",".join(names)
RECURSIVE Join(_)
Join(names) ==
    IF names = <<>> THEN <<>>
    ELSE IF Len(names) = 1 THEN names[1]
    ELSE names[1] \o <<",">> \o Join(Tail(names))

\* the digits that follow position k of a text
RECURSIVE DigitRun(_, _)
DigitRun(text, k) ==
    IF k > Len(text) \/ ~IsDigit(text[k]) THEN <<>>
    ELSE <<text[k]>> \o DigitRun(text, k + 1)

\* the characters a sheet title must not hold
InvalidTitleChars == {"\\", "*", "?", ":", "/", "[", "]"}

InvalidTitle(value) == \E i \in 1..Len(value) : value[i] \in InvalidTitleChars

\* openpyxl's avoid_duplicate_name: a title that a sheet already has, in any
\* letter case, gets a number appended, one more than the highest number
\* that follows the title in the joined sheet names
avoid_duplicate_name(names, value) ==
    IF \E i \in 1..Len(names) : Lower(names[i]) = Lower(value)
    THEN LET joined == Join(names)
             at == {k \in 1..(Len(joined) - Len(value) + 1) :
                       Lower(SubSeq(joined, k, k + Len(value) - 1)) = Lower(value)}
             counts == {DigitsVal(DigitRun(joined, k + Len(value))) :
                          k \in {j \in at : DigitRun(joined, j + Len(value)) # <<>>}}
         IN  value \o NatToStr(Max(counts) + 1)
    ELSE value

\* ws.title = value: a sheet keeps its title when it is given the same one
\* again, and another title is made unlike those of all sheets
set_title(wb, i, value) ==
    IF wb.sheets[i] = value THEN wb
    ELSE [wb EXCEPT !.sheets[i] = avoid_duplicate_name(wb.sheets, value)]

\* wb.create_sheet(title=name): a new empty sheet at the end; without a
\* title it is called "Sheet", and its title is made unlike those of the
\* sheets the workbook has
create_sheet(wb, title) ==
    LET given == IF title = <<>> THEN <<"S","h","e","e","t">> ELSE title
    IN  [wb EXCEPT !.sheets = Append(@, avoid_duplicate_name(wb.sheets, given)),
                   !.cells = Append(@, EmptySheet)]

\* the position of a title in wb.sheetnames
SheetIndex(wb, title) == CHOOSE i \in 1..Len(wb.sheets) : wb.sheets[i] = title

HasSheet(wb, title) == \E i \in 1..Len(wb.sheets) : wb.sheets[i] = title

\* the value a cell takes when it is assigned v: text that starts with "="
\* and has more than one character is a formula
bind_value(v) ==
    IF v.t = "str" /\ Len(v.v) > 1 /\ Head(v.v) = "=" THEN Formula(v.v) ELSE v

\* the value wb.save stores for a cell: a cell of empty text is stored empty
saved_value(v) == IF v = PyStr(<<>>) THEN None ELSE v

\* the value load_workbook(data_only=True) gives for a stored cell: the
\* cached result of a formula, which a workbook saved by this library lacks
data_only_value(v) == IF v.t = "formula" THEN None ELSE v

\* "A1" -> row 1, column 1
IsCoord(key) ==
    /\ Len(key) = 2
    /\ \E c \in 1..Len(ColLetters) : ColLetters[c] = key[1]
    /\ IsDigit(key[2]) /\ key[2] # "0"

CoordOf(key) ==
    << DigitVal(key[2]), CHOOSE c \in 1..Len(ColLetters) : ColLetters[c] = key[1] >>

\* "A1:B2"
IsRange(key) ==
    /\ Len(key) = 5
    /\ key[3] = ":"
    /\ IsCoord(SubSeq(key, 1, 2))
    /\ IsCoord(SubSeq(key, 4, 5))

\* cell.coordinate
coordinate(r, c) == <<ColLetters[c], DigitChars[r + 1]>>

\* os.path.exists(path)
path_exists(f, path) ==
    /\ path # <<>>
    /\ NodeAt(f, dirname(path)).kind = "dir"
    /\ f[path].kind # "absent"

\* openpyxl.load_workbook(path, data_only=...)
load_workbook(f, path, data_only) ==
    IF open_error(f, path) # "none"
    THEN [raised |-> open_error(f, path), wb |-> Workbook]
    ELSE IF f[path].kind = "absent"
    THEN [raised |-> "FileNotFoundError", wb |-> Workbook]
    ELSE IF f[path].kind = "file"
    THEN [raised |-> "BadZipFile", wb |-> Workbook]
    ELSE [raised |-> "none",
          wb |-> IF data_only
                 THEN [f[path].wb EXCEPT !.cells =
                         [i \in 1..Len(f[path].wb.sheets) |->
                            [g \in Grid |-> data_only_value(f[path].wb.cells[i][g])]]]
                 ELSE f[path].wb]

\* wb.save(path)
save(f, path, wb) ==
    IF open_error(f, path) # "none"
    THEN [raised |-> open_error(f, path), fs |-> f]
    ELSE [raised |-> "none",
          fs |-> [f EXCEPT ![path] =
                    Book([wb EXCEPT !.cells =
                            [i \in 1..Len(wb.sheets) |->
                               [g \in Grid |-> saved_value(wb.cells[i][g])]]])]]

\* the import of openpyxl at the head of the module succeeded
OPENPYXL_AVAILABLE == TRUE

\* _check_openpyxl
NotInstalled == [error |-> "openpyxl is not installed. Run: pip install openpyxl"]

excel_handlers == {"Exception"}

\* json.dumps({"error": str(e), "path": path}), or the exception itself when
\* no except clause catches it
ExcelFailure(e, path, f) ==
    IF Caught(e, excel_handlers)
    THEN [result |-> [error |-> e, path |-> path], fs |-> f, escaped |-> FALSE]
    ELSE [result |-> [raised |-> e], fs |-> f, escaped |-> TRUE]

\* if sheet_name:
Truthy(text) == text # None /\ text.v # <<>>

\* the error of a read function for a sheet that the workbook lacks
SheetNotFound(wb, sheet_name, f) ==
    [result |-> [error |-> "Sheet not found", sheet |-> sheet_name,
                 available_sheets |-> wb.sheets],
     fs |-> f, escaped |-> FALSE]

\* ws = wb[sheet_name] if sheet_name else wb.active
SheetFor(wb, sheet_name) ==
    IF Truthy(sheet_name) THEN SheetIndex(wb, sheet_name.v) ELSE wb.active

\* ws[cell] = value
set_cell(wb, i, cell, v) ==
    IF IsRange(cell) THEN [raised |-> "AttributeError", wb |-> wb]
    ELSE IF ~IsCoord(cell) THEN [raised |-> "ValueError", wb |-> wb]
    ELSE [raised |-> "none",
          wb |-> [wb EXCEPT !.cells[i][CoordOf(cell)] = bind_value(v)]]

write_cell(f, path, cell, value, sheet_name) ==
    LET m   == IF dirname(path) # <<>> THEN makedirs(f, dirname(path))
               ELSE [raised |-> "none", fs |-> f]
        ld  == IF path_exists(m.fs, path) THEN load_workbook(m.fs, path, FALSE)
               ELSE [raised |-> "none", wb |-> Workbook]
        wb1 == IF Truthy(sheet_name) /\ ~HasSheet(ld.wb, sheet_name.v)
               THEN create_sheet(ld.wb, sheet_name.v) ELSE ld.wb
        i   == SheetFor(wb1, sheet_name)
        v   == to_number(value)
        st  == set_cell(wb1, i, cell, v)
        sv  == save(m.fs, path, st.wb)
    IN  IF ~OPENPYXL_AVAILABLE
        THEN [result |-> NotInstalled, fs |-> f, escaped |-> FALSE]
        ELSE IF m.raised # "none" THEN ExcelFailure(m.raised, path, m.fs)
        ELSE IF ld.raised # "none" THEN ExcelFailure(ld.raised, path, m.fs)
        ELSE IF Truthy(sheet_name) /\ ~HasSheet(ld.wb, sheet_name.v)
                /\ InvalidTitle(sheet_name.v)
        THEN ExcelFailure("ValueError", path, m.fs)
        ELSE IF st.raised # "none" THEN ExcelFailure(st.raised, path, m.fs)
        ELSE IF sv.raised # "none" THEN ExcelFailure(sv.raised, path, sv.fs)
        ELSE [result |-> [status |-> "ok", path |-> abspath(path),
                          sheet |-> wb1.sheets[i], cell |-> cell,
                          value |-> str(v)],
              fs |-> sv.fs, escaped |-> FALSE]

\* ws[cell].value
get_cell(wb, i, cell) ==
    IF IsRange(cell) THEN [raised |-> "AttributeError", value |-> None]
    ELSE IF ~IsCoord(cell) THEN [raised |-> "ValueError", value |-> None]
    ELSE [raised |-> "none",
          value |-> IF CoordOf(cell) \in Grid THEN wb.cells[i][CoordOf(cell)]
                    ELSE None]

read_cell(f, path, cell, sheet_name) ==
    LET ld == load_workbook(f, path, TRUE)
        i  == SheetFor(ld.wb, sheet_name)
        g  == get_cell(ld.wb, i, cell)
    IN  IF ~OPENPYXL_AVAILABLE
        THEN [result |-> NotInstalled, fs |-> f, escaped |-> FALSE]
        ELSE IF ld.raised # "none" THEN ExcelFailure(ld.raised, path, f)
        ELSE IF Truthy(sheet_name) /\ ~HasSheet(ld.wb, sheet_name.v)
        THEN SheetNotFound(ld.wb, sheet_name, f)
        ELSE IF g.raised # "none" THEN ExcelFailure(g.raised, path, f)
        ELSE [result |-> [status |-> "ok", path |-> abspath(path),
                          sheet |-> ld.wb.sheets[i], cell |-> cell,
                          value |-> g.value],
              fs |-> f, escaped |-> FALSE]

(***************************************************************************)
(* The calls the model makes on write_cell and read_cell                   *)
(***************************************************************************)
\* the workbook path: a file of the working directory
BookPathArgs == { <<"d">> }

\* a cell, and a range where a cell is expected
CellArgs == { <<"A","1">>, <<"A","1",":","B","1">> }

\* the texts written: an integer, a decimal, plain text, a text with a
\* point that is no number, the empty text and a formula
ValueArgs ==
    { <<"4","2">>, <<"1",".","5">>, <<"x">>, <<"1",".","x">>, <<>>, <<"=","B","1">> }

\* no sheet name (the active sheet) and a sheet that write_cell creates
SheetArgs == { None, PyStr(<<"T">>) }

WriteCell(paths, cells, values, sheets) ==
    \E path \in paths, cell \in cells, value \in values, sheet_name \in sheets :
        LET r == write_cell(fs, path, cell, value, sheet_name)
        IN  /\ last' = [op |-> "write_cell", path |-> path, cell |-> cell,
                        value |-> value, sheet_name |-> sheet_name]
            /\ fs' = r.fs
            /\ result' = r.result
            /\ escaped' = r.escaped
            /\ UNCHANGED <<started, calls, chat>>

ReadCell(paths, cells, sheets) ==
    \E path \in paths, cell \in cells, sheet_name \in sheets :
        LET r == read_cell(fs, path, cell, sheet_name)
        IN  /\ last' = [op |-> "read_cell", path |-> path, cell |-> cell,
                        sheet_name |-> sheet_name]
            /\ fs' = r.fs
            /\ result' = r.result
            /\ escaped' = r.escaped
            /\ UNCHANGED <<started, calls, chat>>

NextCell ==
    \/ WriteCell(BookPathArgs, CellArgs, ValueArgs, SheetArgs)
    \/ ReadCell(BookPathArgs, CellArgs, SheetArgs)

SpecCell == Init /\ [][NextCell]_vars

(***************************************************************************)
(* Properties of write_cell and read_cell                                  *)
(***************************************************************************)
\* a write_cell that returned ok is followed by a read_cell of its cell
ReadsBack ==
    /\ last.op = "write_cell"
    /\ IsOk(result)
    /\ last'.op = "read_cell"
    /\ last'.path = last.path
    /\ last'.cell = last.cell
    /\ last'.sheet_name = last.sheet_name

Denoted(text) ==
    IF Contains(text, <<".">>)
    THEN IF FloatSyntax(text) THEN FloatOf(text) ELSE PyStr(text)
    ELSE IF IntSyntax(text) THEN IntOf(text) ELSE PyStr(text)

\* a text that is stored as text: not empty and not a formula
PlainText(text) == text # <<>> /\ Head(text) # "="

max_row(sheet) == Max({g[1] : g \in {h \in Grid : sheet[h] # None}})

max_column(sheet) == Max({g[2] : g \in {h \in Grid : sheet[h] # None}})

\* the value of a cell of a sheet; cells beyond the grid are empty
ValueAt(sheet, r, c) == IF <<r, c>> \in Grid THEN sheet[<<r, c>>] ELSE None

\* ws.iter_rows(): the rows 1 .. max_row, each with the cells of the
\* columns 1 .. max_column.  stored is the sheet as saved, which gives the
\* extent; shown is the sheet as loaded, which gives the values.
iter_rows(stored, shown) ==
    [r \in 1..max_row(stored) |->
        [c \in 1..max_column(stored) |->
            [cell |-> coordinate(r, c), value |-> ValueAt(shown, r, c)]]]

\* row_data = [cell.value for cell in row]
RowValues(row) == [c \in 1..Len(row) |-> row[c].value]

\* ws[cell_range]: the rows of a range; a single cell is no sequence of
\* rows, so that iterating over it raises TypeError
range_rows(shown, key) ==
    IF IsRange(key)
    THEN LET a == CoordOf(SubSeq(key, 1, 2))
             b == CoordOf(SubSeq(key, 4, 5))
         IN  [raised |-> "none",
              rows |-> [i \in 1..(b[1] - a[1] + 1) |->
                          [j \in 1..(b[2] - a[2] + 1) |->
                              [cell  |-> coordinate(a[1] + i - 1, a[2] + j - 1),
                               value |-> ValueAt(shown, a[1] + i - 1, a[2] + j - 1)]]]]
    ELSE IF IsCoord(key) THEN [raised |-> "TypeError", rows |-> <<>>]
    ELSE [raised |-> "ValueError", rows |-> <<>>]

\* for row in ws[cell_range]: data.append(row_data)
RECURSIVE RangeLoop(_, _)
RangeLoop(rows, data) ==
    IF rows = <<>> THEN data
    ELSE RangeLoop(Tail(rows), Append(data, RowValues(Head(rows))))

\* for i, row in enumerate(ws.iter_rows(values_only=True)):
\*     if i >= max_rows: break
\*     data.append(list(row))
RECURSIVE RowsLoop(_, _, _, _)
RowsLoop(rows, i, max_rows, data) ==
    IF rows = <<>> THEN data
    ELSE IF i >= max_rows THEN data
    ELSE RowsLoop(Tail(rows), i + 1, max_rows, Append(data, RowValues(Head(rows))))

read_sheet(f, path, sheet_name, cell_range, max_rows) ==
    LET ld == load_workbook(f, path, TRUE)
        i  == SheetFor(ld.wb, sheet_name)
        rg == range_rows(ld.wb.cells[i], cell_range.v)
        data == IF Truthy(cell_range) THEN RangeLoop(rg.rows, <<>>)
                ELSE RowsLoop(iter_rows(f[path].wb.cells[i], ld.wb.cells[i]),
                              0, max_rows, <<>>)
    IN  IF ~OPENPYXL_AVAILABLE
        THEN [result |-> NotInstalled, fs |-> f, escaped |-> FALSE]
        ELSE IF ld.raised # "none" THEN ExcelFailure(ld.raised, path, f)
        ELSE IF Truthy(sheet_name) /\ ~HasSheet(ld.wb, sheet_name.v)
        THEN SheetNotFound(ld.wb, sheet_name, f)
        ELSE IF Truthy(cell_range) /\ rg.raised # "none"
        THEN ExcelFailure(rg.raised, path, f)
        ELSE [result |-> [status |-> "ok", path |-> abspath(path),
                          sheet |-> ld.wb.sheets[i],
                          row_count |-> Len(data), data |-> data],
              fs |-> f, escaped |-> FALSE]

\* the cells of one row, from cell c on:
\*     if cell.value is not None:
\*         if search_lower in str(cell.value).lower():
\*             matches.append({"cell": cell.coordinate, "value": cell.value})
\*             if len(matches) >= max_results: break
RECURSIVE CellLoop(_, _, _, _, _)
CellLoop(row, c, search_lower, max_results, matches) ==
    IF c > Len(row) THEN matches
    ELSE IF row[c].value # None /\ Contains(Lower(str(row[c].value)), search_lower)
    THEN IF Len(matches) + 1 >= max_results
         THEN Append(matches, row[c])
         ELSE CellLoop(row, c + 1, search_lower, max_results, Append(matches, row[c]))
    ELSE CellLoop(row, c + 1, search_lower, max_results, matches)

\* the rows, from row r on:
\*     for cell in row: ...
\*     if len(matches) >= max_results: break
RECURSIVE SearchLoop(_, _, _, _, _)
SearchLoop(rows, r, search_lower, max_results, matches) ==
    IF r > Len(rows) THEN matches
    ELSE LET found == CellLoop(rows[r], 1, search_lower, max_results, matches)
         IN  IF Len(found) >= max_results THEN found
             ELSE SearchLoop(rows, r + 1, search_lower, max_results, found)

search_value(f, path, search_term, sheet_name, max_results) ==
    LET ld == load_workbook(f, path, TRUE)
        i  == SheetFor(ld.wb, sheet_name)
        matches == SearchLoop(iter_rows(f[path].wb.cells[i], ld.wb.cells[i]), 1,
                              Lower(search_term), max_results, <<>>)
    IN  IF ~OPENPYXL_AVAILABLE
        THEN [result |-> NotInstalled, fs |-> f, escaped |-> FALSE]
        ELSE IF ld.raised # "none" THEN ExcelFailure(ld.raised, path, f)
        ELSE IF Truthy(sheet_name) /\ ~HasSheet(ld.wb, sheet_name.v)
        THEN SheetNotFound(ld.wb, sheet_name, f)
        ELSE [result |-> [status |-> "ok", path |-> abspath(path),
                          sheet |-> ld.wb.sheets[i],
                          search_term |-> search_term,
                          match_count |-> Len(matches), matches |-> matches],
              fs |-> f, escaped |-> FALSE]

(***************************************************************************)
(* The calls the model makes on read_sheet and search_value                *)
(***************************************************************************)
\* the cells the sheet is filled through
FillCellArgs == { <<"A","1">>, <<"B","1">>, <<"A","2">>, <<"B","2">> }

\* the texts the sheet is filled with: text in mixed case and an integer
FillValueArgs == { <<"a","B">>, <<"4","2">> }

\* no sheet name (the active sheet) and a sheet the workbook lacks
ReadSheetArgs == { None, PyStr(<<"Z">>) }

\* no range, the empty range, a range of one row, a range of two rows and a
\* single cell
RangeArgs ==
    { None, PyStr(<<>>), PyStr(<<"A","1",":","B","1">>),
      PyStr(<<"A","1",":","A","2">>), PyStr(<<"A","1">>) }

MaxRowsArgs == 0..MaxRow

SearchTermArgs == { <<"B">>, <<"4">>, <<"z">> }

MaxResultsArgs == 0..2

ReadSheet ==
    \E path \in BookPathArgs, sheet_name \in ReadSheetArgs,
       cell_range \in RangeArgs, max_rows \in MaxRowsArgs :
        LET r == read_sheet(fs, path, sheet_name, cell_range, max_rows)
        IN  /\ last' = [op |-> "read_sheet", path |-> path, sheet_name |-> sheet_name,
                        cell_range |-> cell_range, max_rows |-> max_rows]
            /\ fs' = r.fs
            /\ result' = r.result
            /\ escaped' = r.escaped
            /\ UNCHANGED <<started, calls, chat>>

SearchValue ==
    \E path \in BookPathArgs, search_term \in SearchTermArgs,
       sheet_name \in ReadSheetArgs, max_results \in MaxResultsArgs :
        LET r == search_value(fs, path, search_term, sheet_name, max_results)
        IN  /\ last' = [op |-> "search_value", path |-> path,
                        search_term |-> search_term, sheet_name |-> sheet_name,
                        max_results |-> max_results]
            /\ fs' = r.fs
            /\ result' = r.result
            /\ escaped' = r.escaped
            /\ UNCHANGED <<started, calls, chat>>

NextSheet ==
    \/ WriteCell(BookPathArgs, FillCellArgs, FillValueArgs, {None})
    \/ ReadSheet
    \/ SearchValue

SpecSheet == Init /\ [][NextSheet]_vars

(***************************************************************************)
(* Properties of read_sheet and search_value                               *)
(***************************************************************************)
\* C9: a successful read_sheet returns row_count equal to the length of data
\* and at most max_rows, with or without a cell_range.
C9_RowCountAtMostMaxRows ==
    (last.op = "read_sheet" /\ IsOk(result)) =>
        /\ result.row_count = Len(result.data)
        /\ result.row_count <= last.max_rows

\* C10: a successful search_value returns match_count equal to the length of
\* matches and at most max_results, also for max_results = 0.
C10_MatchCountAtMostMaxResults ==
    (last.op = "search_value" /\ IsOk(result)) =>
        /\ result.match_count = Len(result.matches)
        /\ result.match_count <= last.max_results

\* the cells of a sheet in row-major order: rows top to bottom, the cells of
\* a row left to right
RowMajor(sheet) ==
    [k \in 1..(MaxRow * MaxCol) |->
        LET r == ((k - 1) \div MaxCol) + 1
            c == ((k - 1) % MaxCol) + 1
        IN  [cell |-> coordinate(r, c), value |-> data_only_value(sheet[<<r, c>>])]]

\* a non-empty cell whose value, as text, contains the term when both are
\* lower-cased
IsMatch(x, term) ==
    x.value # None /\ Contains(Lower(str(x.value)), Lower(term))

MatchingCells(sheet, term) == SelectSeq(RowMajor(sheet), LAMBDA x : IsMatch(x, term))

FirstN(seq, n) == SubSeq(seq, 1, IF n < Len(seq) THEN n ELSE Len(seq))

\* C11: the matches a successful search_value returns are exactly the first
\* max_results non-empty cells, in row-major order, whose value as text
\* contains the search term when both are lower-cased.
C11_FirstMatchesInRowMajorOrder ==
    (last.op = "search_value" /\ IsOk(result)) =>
        result.matches =
            FirstN(MatchingCells(fs[last.path].wb.cells[
                       SheetFor(fs[last.path].wb, last.sheet_name)],
                                 last.search_term),
                   last.max_results)

(***************************************************************************)
(* create_workbook, list_sheets and add_sheet                              *)
(***************************************************************************)
\* sheet_names.split(",")
RECURSIVE split(_)
split(text) ==
    IF \A i \in 1..Len(text) : text[i] # ","
    THEN <<text>>
    ELSE LET k == CHOOSE i \in 1..Len(text) :
                      text[i] = "," /\ \A j \in 1..(i - 1) : text[j] # ","
         IN  <<SubSeq(text, 1, k - 1)>> \o split(SubSeq(text, k + 1, Len(text)))

\* names = [n.strip() for n in sheet_names.split(",")]
names_of(sheet_names) ==
    LET parts == split(sheet_names) IN [i \in 1..Len(parts) |-> Strip(parts[i])]

\* for name in names[1:]: wb.create_sheet(title=name), from name k on
RECURSIVE CreateLoop(_, _, _)
CreateLoop(wb, names, k) ==
    IF k > Len(names) THEN [raised |-> "none", wb |-> wb]
    ELSE IF InvalidTitle(names[k]) THEN [raised |-> "ValueError", wb |-> wb]
    ELSE CreateLoop(create_sheet(wb, names[k]), names, k + 1)

create_workbook(f, path, sheet_names) ==
    LET m   == IF dirname(path) # <<>> THEN makedirs(f, dirname(path))
               ELSE [raised |-> "none", fs |-> f]
        names == names_of(sheet_names.v)
        made == IF ~Truthy(sheet_names) THEN [raised |-> "none", wb |-> Workbook]
                ELSE IF InvalidTitle(names[1]) THEN [raised |-> "ValueError", wb |-> Workbook]
                ELSE CreateLoop(set_title(Workbook, Workbook.active, names[1]), names, 2)
        sv  == save(m.fs, path, made.wb)
    IN  IF ~OPENPYXL_AVAILABLE
        THEN [result |-> NotInstalled, fs |-> f, escaped |-> FALSE]
        ELSE IF m.raised # "none" THEN ExcelFailure(m.raised, path, m.fs)
        ELSE IF made.raised # "none" THEN ExcelFailure(made.raised, path, m.fs)
        ELSE IF sv.raised # "none" THEN ExcelFailure(sv.raised, path, sv.fs)
        ELSE [result |-> [status |-> "ok", path |-> abspath(path),
                          sheets |-> made.wb.sheets],
              fs |-> sv.fs, escaped |-> FALSE]

list_sheets(f, path) ==
    LET ld == load_workbook(f, path, FALSE)
    IN  IF ~OPENPYXL_AVAILABLE
        THEN [result |-> NotInstalled, fs |-> f, escaped |-> FALSE]
        ELSE IF ld.raised # "none" THEN ExcelFailure(ld.raised, path, f)
        ELSE [result |-> [status |-> "ok", path |-> abspath(path),
                          sheets |-> ld.wb.sheets],
              fs |-> f, escaped |-> FALSE]

add_sheet(f, path, sheet_name) ==
    LET ld == load_workbook(f, path, FALSE)
        wb1 == create_sheet(ld.wb, sheet_name)
        sv  == save(f, path, wb1)
    IN  IF ~OPENPYXL_AVAILABLE
        THEN [result |-> NotInstalled, fs |-> f, escaped |-> FALSE]
        ELSE IF ld.raised # "none" THEN ExcelFailure(ld.raised, path, f)
        ELSE IF HasSheet(ld.wb, sheet_name)
        THEN [result |-> [error |-> "Sheet already exists", sheet |-> sheet_name,
                          existing_sheets |-> ld.wb.sheets],
              fs |-> f, escaped |-> FALSE]
        ELSE IF InvalidTitle(sheet_name) THEN ExcelFailure("ValueError", path, f)
        ELSE IF sv.raised # "none" THEN ExcelFailure(sv.raised, path, sv.fs)
        ELSE [result |-> [status |-> "ok", path |-> abspath(path),
                          new_sheet |-> sheet_name, all_sheets |-> wb1.sheets],
              fs |-> sv.fs, escaped |-> FALSE]

(***************************************************************************)
(* The calls the model makes on create_workbook, list_sheets and add_sheet *)
(***************************************************************************)
\* the most sheets a workbook of the model is given
MaxSheets == 3

\* no sheet names, the empty text, one name, two names, names with blanks
\* around them, a name twice, a list that ends in a comma, a name that a
\* sheet title cannot hold
SheetNamesArgs ==
    { None, PyStr(<<>>), PyStr(<<"a">>), PyStr(<<"a",",","b">>),
      PyStr(<<" ","a"," ",","," ","b">>), PyStr(<<"a",",","a">>),
      PyStr(<<"a",",">>), PyStr(<<"a",",","/">>) }

\* the names of the sheets added: two names, a name in the other letter
\* case, the empty name and a name that a sheet title cannot hold
AddSheetArgs == { <<"a">>, <<"b">>, <<"A">>, <<>>, <<"/">> }

CreateWorkbook ==
    \E path \in BookPathArgs, sheet_names \in SheetNamesArgs :
        LET r == create_workbook(fs, path, sheet_names)
        IN  /\ last' = [op |-> "create_workbook", path |-> path,
                        sheet_names |-> sheet_names]
            /\ fs' = r.fs
            /\ result' = r.result
            /\ escaped' = r.escaped
            /\ UNCHANGED <<started, calls, chat>>

ListSheets ==
    \E path \in BookPathArgs :
        LET r == list_sheets(fs, path)
        IN  /\ last' = [op |-> "list_sheets", path |-> path]
            /\ fs' = r.fs
            /\ result' = r.result
            /\ escaped' = r.escaped
            /\ UNCHANGED <<started, calls, chat>>

AddSheet ==
    \E path \in BookPathArgs, sheet_name \in AddSheetArgs :
        LET r == add_sheet(fs, path, sheet_name)
        IN  /\ ~(fs[path].kind = "book" /\ Len(fs[path].wb.sheets) >= MaxSheets)
            /\ last' = [op |-> "add_sheet", path |-> path, sheet_name |-> sheet_name]
            /\ fs' = r.fs
            /\ result' = r.result
            /\ escaped' = r.escaped
            /\ UNCHANGED <<started, calls, chat>>

NextBook == CreateWorkbook \/ ListSheets \/ AddSheet

SpecBook == Init /\ [][NextBook]_vars

(***************************************************************************)
(* Properties of create_workbook, list_sheets and add_sheet                *)
(***************************************************************************)
\* C12: a successful create_workbook with sheet_names "n1,...,nk" leaves a
\* workbook whose sheets are n1..nk, each trimmed, in that order, reports
\* that list in sheets, and a following list_sheets on the same path returns
\* the same list.
C12_SheetsAreTheNamesGiven ==
    [][ /\ (last'.op = "create_workbook" /\ Truthy(last'.sheet_names) /\ IsOk(result')) =>
              /\ result'.sheets = names_of(last'.sheet_names.v)
              /\ fs'[last'.path].wb.sheets = names_of(last'.sheet_names.v)
        /\ (/\ last.op = "create_workbook" /\ Truthy(last.sheet_names) /\ IsOk(result)
            /\ last'.op = "list_sheets" /\ last'.path = last.path) =>
              /\ IsOk(result')
              /\ result'.sheets = names_of(last.sheet_names.v) ]_vars

\* C13: a successful create_workbook without sheet_names (None or the empty
\* text) leaves a workbook with exactly one sheet, named "Sheet1".
C13_DefaultSheetIsSheet1 ==
    (last.op = "create_workbook" /\ ~Truthy(last.sheet_names) /\ IsOk(result)) =>
        /\ result.sheets = << <<"S","h","e","e","t","1">> >>
        /\ fs[last.path].wb.sheets = << <<"S","h","e","e","t","1">> >>

\* C14: add_sheet on a workbook that has a sheet called sheet_name returns
\* an error that lists the existing sheets and leaves the file unchanged;
\* otherwise, when it succeeds, the sheets of the workbook are the previous
\* ones with sheet_name added at the end.
C14_AddSheetAppendsOrRejects ==
    [][ (last'.op = "add_sheet" /\ fs[last'.path].kind = "book") =>
            IF HasSheet(fs[last'.path].wb, last'.sheet_name)
            THEN /\ "error" \in DOMAIN result'
                 /\ result'.existing_sheets = fs[last'.path].wb.sheets
                 /\ fs' = fs
            ELSE IsOk(result') =>
                    fs'[last'.path].wb.sheets =
                        Append(fs[last'.path].wb.sheets, last'.sheet_name) ]_vars

(***************************************************************************)
(* write_cell called by two callers at the same time.  The function takes  *)
(* no lock; what another caller can see of a call are its accesses to the  *)
(* file, so that a call is three steps: it loads the workbook (or makes a  *)
(* new one), changes the cell in its own copy, and saves its copy.  Each   *)
(* caller makes one call, on the active sheet.  The fields seen and rank   *)
(* of a call record the order of the steps: the callers that had saved     *)
(* when this call loaded, and the number of saves before its own.          *)
(***************************************************************************)
\* lines 146-152: the parent directory, then the workbook of the file or a
\* new workbook
wc_load(f, path) ==
    LET m  == IF dirname(path) # <<>> THEN makedirs(f, dirname(path))
              ELSE [raised |-> "none", fs |-> f]
        ld == IF path_exists(m.fs, path) THEN load_workbook(m.fs, path, FALSE)
              ELSE [raised |-> "none", wb |-> Workbook]
    IN  IF m.raised # "none" THEN [raised |-> m.raised, fs |-> m.fs, wb |-> Workbook]
        ELSE [raised |-> ld.raised, fs |-> m.fs, wb |-> ld.wb]

\* lines 154-170: the sheet, the number conversion and ws[cell] = value
wc_modify(wb, cell, value, sheet_name) ==
    LET wb1 == IF Truthy(sheet_name) /\ ~HasSheet(wb, sheet_name.v)
               THEN create_sheet(wb, sheet_name.v) ELSE wb
    IN  set_cell(wb1, SheetFor(wb1, sheet_name), cell, to_number(value))

\* a save that keeps the cells other callers stored since the load
wc_save_Merges(f, path, wb) ==
    IF path_exists(f, path) /\ f[path].kind = "book"
    THEN save(f, path,
              [wb EXCEPT !.cells[1] =
                  [g \in Grid |-> IF wb.cells[1][g] # None THEN wb.cells[1][g]
                                  ELSE f[path].wb.cells[1][g]]])
    ELSE save(f, path, wb)

\* line 171: wb.save(path)
wc_save(f, path, wb) == save(f, path, wb)

\* the cells and the texts of the two calls
ConcCellArgs == { <<"A","1">>, <<"B","1">> }

ConcValueArgs == { <<"4","2">>, <<"x">> }

Saved == {q \in Callers : calls[q].pc = "done"}

WcLoad(p) ==
    \E path \in BookPathArgs, cell \in ConcCellArgs, value \in ConcValueArgs :
        LET ld == wc_load(fs, path)
        IN  /\ calls[p].pc = "idle"
            /\ fs' = ld.fs
            /\ calls' = [calls EXCEPT ![p] =
                  IF ld.raised # "none"
                  THEN [pc |-> "done", path |-> path, cell |-> cell, value |-> value,
                        wb |-> ld.wb, seen |-> Saved, rank |-> Cardinality(Saved),
                        result |-> ExcelFailure(ld.raised, path, fs).result]
                  ELSE [pc |-> "loaded", path |-> path, cell |-> cell, value |-> value,
                        wb |-> ld.wb, seen |-> Saved]]
            /\ UNCHANGED <<last, result, started, escaped, chat>>

WcModify(p) ==
    LET c  == calls[p]
        st == wc_modify(c.wb, c.cell, c.value, None)
    IN  /\ c.pc = "loaded"
        /\ calls' = [calls EXCEPT ![p] =
              IF st.raised # "none"
              THEN [pc |-> "done", path |-> c.path, cell |-> c.cell, value |-> c.value,
                    wb |-> c.wb, seen |-> c.seen, rank |-> Cardinality(Saved),
                    result |-> ExcelFailure(st.raised, c.path, fs).result]
              ELSE [c EXCEPT !.pc = "modified", !.wb = st.wb]]
        /\ UNCHANGED <<fs, last, result, started, escaped, chat>>

WcSave(p) ==
    LET c  == calls[p]
        sv == wc_save(fs, c.path, c.wb)
    IN  /\ c.pc = "modified"
        /\ fs' = sv.fs
        /\ calls' = [calls EXCEPT ![p] =
              [pc |-> "done", path |-> c.path, cell |-> c.cell, value |-> c.value,
               wb |-> c.wb, seen |-> c.seen, rank |-> Cardinality(Saved),
               result |-> IF sv.raised # "none"
                          THEN ExcelFailure(sv.raised, c.path, fs).result
                          ELSE [status |-> "ok", path |-> abspath(c.path),
                                sheet |-> c.wb.sheets[c.wb.active], cell |-> c.cell,
                                value |-> str(to_number(c.value))]]]
        /\ UNCHANGED <<last, result, started, escaped, chat>>

NextCalls == \E p \in Callers : WcLoad(p) \/ WcModify(p) \/ WcSave(p)

SpecCalls == Init /\ [][NextCalls]_vars

(***************************************************************************)
(* Properties of write_cell calls that run at the same time                *)
(***************************************************************************)
\* both calls returned status ok and were for different cells
BothWrote(p, q) ==
    /\ p # q
    /\ calls[p].pc = "done" /\ IsOk(calls[p].result)
    /\ calls[q].pc = "done" /\ IsOk(calls[q].result)
    /\ calls[p].cell # calls[q].cell

\* the value the file holds in the cell of a call
HeldAt(c) == fs[c.path].wb.cells[1][CoordOf(c.cell)]

\* the value a call's text is stored as
Written(c) == saved_value(bind_value(to_number(c.value)))

MaxTurns == 2

MaxToolRounds == 1

is_exit_CaseSensitive(user_input) == user_input = <<"e","x","i","t">>

\* user_input.lower() == "exit"
is_exit(user_input) == Lower(user_input) = <<"e","x","i","t">>

NoResponse == <<"N","o"," ","r","e","s","p","o","n","s","e">>

\* assistant_message = str(response[0]) if response else "No response"
assistant_message(response) == IF response # <<>> THEN response[1] ELSE NoResponse

\* the lines typed: exit in three letter cases, a text, the empty line and
\* exit with a blank in front
UserInputs ==
    { <<"e","x","i","t">>, <<"E","X","I","T">>, <<"E","x","i","t">>,
      <<"h","i">>, <<>>, <<" ","e","x","i","t">> }

\* what the service returns: no message, one message, two messages
Responses == { <<>>, << <<"r">> >>, << <<"r">>, <<"q">> >> }

\* line 53: user_input = input("You: ")
ChatInput ==
    /\ chat.pc = "input"
    /\ \/ \E line \in UserInputs :
             /\ chat.turns < MaxTurns \/ is_exit(line)
             /\ chat' = [chat EXCEPT !.pc = "check", !.user_input = line]
       \/ chat' = [chat EXCEPT !.pc = "raised"]
    /\ UNCHANGED <<fs, last, result, started, escaped, calls>>

\* lines 54-57: break on exit, or else chat_history.add_user_message
ChatCheck ==
    /\ chat.pc = "check"
    /\ chat' = IF is_exit(chat.user_input)
               THEN [chat EXCEPT !.pc = "ended"]
               ELSE [chat EXCEPT !.pc = "request",
                                 !.history = Append(@, Message("user", "main", chat.user_input))]
    /\ UNCHANGED <<fs, last, result, started, escaped, calls>>

\* lines 66-71: the call of get_chat_message_contents(chat_history, ...)
ChatRequest ==
    /\ chat.pc = "request"
    /\ chat' = [chat EXCEPT !.pc = "waiting", !.requests = @ + 1, !.rounds = 0]
    /\ UNCHANGED <<fs, last, result, started, escaped, calls>>

\* inside that call: the model asks for a tool function, and the service
\* adds the tool-call message and the tool's result to the history
ChatToolCall ==
    /\ chat.pc = "waiting"
    /\ chat.rounds < MaxToolRounds
    /\ chat' = [chat EXCEPT !.rounds = @ + 1,
                            !.history = @ \o << Message("assistant", "service", <<"c">>),
                                                Message("tool", "service", <<"t">>) >>]
    /\ UNCHANGED <<fs, last, result, started, escaped, calls>>

\* the call returns or raises; lines 73-74: the assistant message
ChatReply ==
    /\ chat.pc = "waiting"
    /\ \/ \E response \in Responses :
             chat' = [chat EXCEPT !.pc = "input", !.response = response,
                                  !.turns = @ + 1,
                                  !.history = Append(@, Message("assistant", "main",
                                                         assistant_message(response)))]
       \/ chat' = [chat EXCEPT !.pc = "raised"]
    /\ UNCHANGED <<fs, last, result, started, escaped, calls>>

NextChat == ChatInput \/ ChatCheck \/ ChatRequest \/ ChatToolCall \/ ChatReply

SpecChat == Init /\ [][NextChat]_vars

(***************************************************************************)
(* Properties of the chat loop                                             *)
(***************************************************************************)
\* the system message, then user and assistant messages in turn, one pair
\* for each of n turns
Alternates(h, n) ==
    /\ Len(h) = 1 + 2 * n
    /\ h[1].role = "system"
    /\ \A i \in 2..Len(h) : h[i].role = IF i % 2 = 0 THEN "user" ELSE "assistant"

\* the loop is between two turns, or has ended on exit
BetweenTurns(c) == c.pc \in {"input", "ended"}

\* the step that adds the assistant message adds "No response" for an empty
\* list and the first message of the list otherwise
ReplyIsAnswer ==
    (chat.pc = "waiting" /\ chat'.pc = "input") =>
        chat'.history[Len(chat'.history)] =
            Message("assistant", "main",
                    IF chat'.response = <<>> THEN NoResponse ELSE chat'.response[1])

\* a line that is exit in some letter case ends the loop, adds no message
\* and makes no request
ExitEndsLoop ==
    (chat.pc = "check" /\ Lower(chat.user_input) = <<"e","x","i","t">>) =>
        /\ chat'.pc = "ended"
        /\ chat'.history = chat.history
        /\ chat'.requests = chat.requests

\* C16 as stated: after any number of completed turns the history is the
\* system message followed by strictly alternating user and assistant
\* messages, one assistant message for each user input ("No response" for
\* an empty list), and exit in any letter case ends the loop without a
\* message and without a request.
C16_HistoryAlternates ==
    [][ /\ BetweenTurns(chat') => Alternates(chat'.history, chat'.turns)
        /\ ReplyIsAnswer
        /\ ExitEndsLoop ]_vars

\* the messages the loop itself added
OwnMessages(h) == SelectSeq(h, LAMBDA m : m.by = "main")

\* every message the service added stands behind a user message or another
\* message of the service, that is between the user message and the
\* assistant message of one turn
ServiceMessagesInsideTurns(h) ==
    \A i \in 1..Len(h) :
        h[i].by = "service" =>
            /\ i > 1
            /\ h[i - 1].role = "user" \/ h[i - 1].by = "service"
            /\ i < Len(h)

\* C16: after any number of completed turns the history is the system
\* message followed by one group for each user input: the user message, the
\* messages the completion service added while it invoked functions, and
\* one assistant message added by the loop ("No response" for an empty
\* list); exit in any letter case ends the loop without a message and
\* without a request.
C16_TurnsAreGroups ==
    [][ /\ BetweenTurns(chat') =>
              /\ Alternates(OwnMessages(chat'.history), chat'.turns)
              /\ ServiceMessagesInsideTurns(chat'.history)
        /\ ReplyIsAnswer
        /\ ExitEndsLoop ]_vars

\* a completed turn in which the service invoked a function, and the loop
\* has then ended on EXIT
C16_Witness ==
    /\ chat.pc = "ended"
    /\ chat.turns >= 1
    /\ Lower(chat.user_input) = <<"e","x","i","t">> /\ chat.user_input # <<"e","x","i","t">>
    /\ \E i \in 1..Len(chat.history) : chat.history[i].by = "service"
    /\ \E i \in 1..Len(chat.history) : chat.history[i].text = NoResponse

(***************************************************************************)
(* The error handling of every tool function.  Each function is an         *)
(* optional test in front of its try statement, which returns a payload    *)
(* (a library that is not installed, a command on the deny list), the try  *)
(* statement around the library calls, and the except clauses, in order,   *)
(* each with the payload it returns.  A text payload is given by the       *)
(* literal text it starts with, a JSON payload by its keys.  The field     *)
(* before holds the exceptions the statements in front of the try          *)
(* statement raise for some argument value: run_shell calls strip() on     *)
(* its command there, which a command that is not a string lacks.          *)
(***************************************************************************)
Text(t) == [kind |-> "text", text |-> t]

Json(keys) == [kind |-> "json", keys |-> keys]

NoGuard == [kind |-> "none"]


ShellToolTable ==
    {
      [cls |-> "ShellTool", fn |-> "run_shell",
       guard |-> Json({"error", "command", "reason"}),
       before |-> {"AttributeError"},
       handlers |-> << [catch |-> "Exception", payload |-> Json({"error"})] >>] }

FileIOToolsTable ==
    {
      [cls |-> "FileIOTools", fn |-> "ensure_dir",
       guard |-> NoGuard,
       before |-> {},
       handlers |-> << [catch |-> file_io_except, payload |-> Json({"error", "path"})] >>],
      [cls |-> "FileIOTools", fn |-> "write_file",
       guard |-> NoGuard,
       before |-> {},
       handlers |-> << [catch |-> file_io_except, payload |-> Json({"error", "path"})] >>],
      [cls |-> "FileIOTools", fn |-> "append_file",
       guard |-> NoGuard,
       before |-> {},
       handlers |-> << [catch |-> file_io_except, payload |-> Json({"error", "path"})] >>],
      [cls |-> "FileIOTools", fn |-> "read_file",
       guard |-> NoGuard,
       before |-> {},
       handlers |-> << [catch |-> file_io_except, payload |-> Json({"error", "path"})] >>] }

ExcelToolsTable ==
    {
      [cls |-> "ExcelTools", fn |-> "create_workbook",
       guard |-> Json(DOMAIN NotInstalled),
       before |-> {},
       handlers |-> << [catch |-> "Exception", payload |-> Json({"error", "path"})] >>],
      [cls |-> "ExcelTools", fn |-> "list_sheets",
       guard |-> Json(DOMAIN NotInstalled),
       before |-> {},
       handlers |-> << [catch |-> "Exception", payload |-> Json({"error", "path"})] >>],
      [cls |-> "ExcelTools", fn |-> "read_sheet",
       guard |-> Json(DOMAIN NotInstalled),
       before |-> {},
       handlers |-> << [catch |-> "Exception", payload |-> Json({"error", "path"})] >>],
      [cls |-> "ExcelTools", fn |-> "write_cell",
       guard |-> Json(DOMAIN NotInstalled),
       before |-> {},
       handlers |-> << [catch |-> "Exception", payload |-> Json({"error", "path"})] >>],
      [cls |-> "ExcelTools", fn |-> "write_rows",
       guard |-> Json(DOMAIN NotInstalled),
       before |-> {},
       handlers |-> << [catch |-> "JSONDecodeError", payload |-> Json({"error"})],
                       [catch |-> "Exception", payload |-> Json({"error", "path"})] >>],
      [cls |-> "ExcelTools", fn |-> "add_sheet",
       guard |-> Json(DOMAIN NotInstalled),
       before |-> {},
       handlers |-> << [catch |-> "Exception", payload |-> Json({"error", "path"})] >>],
      [cls |-> "ExcelTools", fn |-> "delete_sheet",
       guard |-> Json(DOMAIN NotInstalled),
       before |-> {},
       handlers |-> << [catch |-> "Exception", payload |-> Json({"error", "path"})] >>],
      [cls |-> "ExcelTools", fn |-> "get_workbook_info",
       guard |-> Json(DOMAIN NotInstalled),
       before |-> {},
       handlers |-> << [catch |-> "Exception", payload |-> Json({"error", "path"})] >>],
      [cls |-> "ExcelTools", fn |-> "read_cell",
       guard |-> Json(DOMAIN NotInstalled),
       before |-> {},
       handlers |-> << [catch |-> "Exception", payload |-> Json({"error", "path"})] >>],
      [cls |-> "ExcelTools", fn |-> "clear_range",
       guard |-> Json(DOMAIN NotInstalled),
       before |-> {},
       handlers |-> << [catch |-> "Exception", payload |-> Json({"error", "path"})] >>],
      [cls |-> "ExcelTools", fn |-> "search_value",
       guard |-> Json(DOMAIN NotInstalled),
       before |-> {},
       handlers |-> << [catch |-> "Exception", payload |-> Json({"error", "path"})] >>] }

CSVToolsTable ==
    {
      [cls |-> "CSVTools", fn |-> "read_csv",
       guard |-> Text(<<"E","r","r","o","r",":"," ","p","a","n","d","a","s"," ","i","s"," ","n","o","t"," ","i","n","s","t","a","l","l","e","d">>),
       before |-> {},
       handlers |-> << [catch |-> "Exception", payload |-> Text(<<"E","r","r","o","r"," ","r","e","a","d","i","n","g"," ","C","S","V",":"," ">>)] >>],
      [cls |-> "CSVTools", fn |-> "get_csv_info",
       guard |-> Text(<<"E","r","r","o","r",":"," ","p","a","n","d","a","s"," ","i","s"," ","n","o","t"," ","i","n","s","t","a","l","l","e","d">>),
       before |-> {},
       handlers |-> << [catch |-> "Exception", payload |-> Text(<<"E","r","r","o","r"," ","r","e","a","d","i","n","g"," ","C","S","V"," ","i","n","f","o",":"," ">>)] >>],
      [cls |-> "CSVTools", fn |-> "filter_csv",
       guard |-> Text(<<"E","r","r","o","r",":"," ","p","a","n","d","a","s"," ","i","s"," ","n","o","t"," ","i","n","s","t","a","l","l","e","d">>),
       before |-> {},
       handlers |-> << [catch |-> "Exception", payload |-> Text(<<"E","r","r","o","r"," ","f","i","l","t","e","r","i","n","g"," ","C","S","V",":"," ">>)] >>],
      [cls |-> "CSVTools", fn |-> "sort_csv",
       guard |-> Text(<<"E","r","r","o","r",":"," ","p","a","n","d","a","s"," ","i","s"," ","n","o","t"," ","i","n","s","t","a","l","l","e","d">>),
       before |-> {},
       handlers |-> << [catch |-> "Exception", payload |-> Text(<<"E","r","r","o","r"," ","s","o","r","t","i","n","g"," ","C","S","V",":"," ">>)] >>],
      [cls |-> "CSVTools", fn |-> "get_column_stats",
       guard |-> Text(<<"E","r","r","o","r",":"," ","p","a","n","d","a","s"," ","i","s"," ","n","o","t"," ","i","n","s","t","a","l","l","e","d">>),
       before |-> {},
       handlers |-> << [catch |-> "Exception", payload |-> Text(<<"E","r","r","o","r"," ","g","e","t","t","i","n","g"," ","c","o","l","u","m","n"," ","s","t","a","t","s",":"," ">>)] >>],
      [cls |-> "CSVTools", fn |-> "merge_csv_files",
       guard |-> Text(<<"E","r","r","o","r",":"," ","p","a","n","d","a","s"," ","i","s"," ","n","o","t"," ","i","n","s","t","a","l","l","e","d">>),
       before |-> {},
       handlers |-> << [catch |-> "Exception", payload |-> Text(<<"E","r","r","o","r"," ","m","e","r","g","i","n","g"," ","C","S","V"," ","f","i","l","e","s",":"," ">>)] >>],
      [cls |-> "CSVTools", fn |-> "select_csv_columns",
       guard |-> Text(<<"E","r","r","o","r",":"," ","p","a","n","d","a","s"," ","i","s"," ","n","o","t"," ","i","n","s","t","a","l","l","e","d">>),
       before |-> {},
       handlers |-> << [catch |-> "Exception", payload |-> Text(<<"E","r","r","o","r"," ","s","e","l","e","c","t","i","n","g"," ","c","o","l","u","m","n","s",":"," ">>)] >>],
      [cls |-> "CSVTools", fn |-> "convert_csv_to_json",
       guard |-> Text(<<"E","r","r","o","r",":"," ","p","a","n","d","a","s"," ","i","s"," ","n","o","t"," ","i","n","s","t","a","l","l","e","d">>),
       before |-> {},
       handlers |-> << [catch |-> "Exception", payload |-> Text(<<"E","r","r","o","r"," ","c","o","n","v","e","r","t","i","n","g"," ","C","S","V"," ","t","o"," ","J","S","O","N",":"," ">>)] >>] }

WordToolsTable ==
    {
      [cls |-> "WordTools", fn |-> "create_word_document",
       guard |-> Text(<<"E","r","r","o","r",":"," ","p","y","t","h","o","n","-","d","o","c","x"," ","i","s"," ","n","o","t"," ","i","n","s","t","a","l","l","e","d">>),
       before |-> {},
       handlers |-> << [catch |-> "Exception", payload |-> Text(<<"E","r","r","o","r"," ","c","r","e","a","t","i","n","g"," ","W","o","r","d"," ","d","o","c","u","m","e","n","t",":"," ">>)] >>],
      [cls |-> "WordTools", fn |-> "add_heading",
       guard |-> Text(<<"E","r","r","o","r",":"," ","p","y","t","h","o","n","-","d","o","c","x"," ","i","s"," ","n","o","t"," ","i","n","s","t","a","l","l","e","d">>),
       before |-> {},
       handlers |-> << [catch |-> "Exception", payload |-> Text(<<"E","r","r","o","r"," ","a","d","d","i","n","g"," ","h","e","a","d","i","n","g",":"," ">>)] >>],
      [cls |-> "WordTools", fn |-> "add_paragraph",
       guard |-> Text(<<"E","r","r","o","r",":"," ","p","y","t","h","o","n","-","d","o","c","x"," ","i","s"," ","n","o","t"," ","i","n","s","t","a","l","l","e","d">>),
       before |-> {},
       handlers |-> << [catch |-> "Exception", payload |-> Text(<<"E","r","r","o","r"," ","a","d","d","i","n","g"," ","p","a","r","a","g","r","a","p","h",":"," ">>)] >>],
      [cls |-> "WordTools", fn |-> "add_table",
       guard |-> Text(<<"E","r","r","o","r",":"," ","p","y","t","h","o","n","-","d","o","c","x"," ","i","s"," ","n","o","t"," ","i","n","s","t","a","l","l","e","d">>),
       before |-> {},
       handlers |-> << [catch |-> "Exception", payload |-> Text(<<"E","r","r","o","r"," ","a","d","d","i","n","g"," ","t","a","b","l","e",":"," ">>)] >>],
      [cls |-> "WordTools", fn |-> "set_table_cell",
       guard |-> Text(<<"E","r","r","o","r",":"," ","p","y","t","h","o","n","-","d","o","c","x"," ","i","s"," ","n","o","t"," ","i","n","s","t","a","l","l","e","d">>),
       before |-> {},
       handlers |-> << [catch |-> "Exception", payload |-> Text(<<"E","r","r","o","r"," ","s","e","t","t","i","n","g"," ","t","a","b","l","e"," ","c","e","l","l",":"," ">>)] >>],
      [cls |-> "WordTools", fn |-> "add_page_break",
       guard |-> Text(<<"E","r","r","o","r",":"," ","p","y","t","h","o","n","-","d","o","c","x"," ","i","s"," ","n","o","t"," ","i","n","s","t","a","l","l","e","d">>),
       before |-> {},
       handlers |-> << [catch |-> "Exception", payload |-> Text(<<"E","r","r","o","r"," ","a","d","d","i","n","g"," ","p","a","g","e"," ","b","r","e","a","k",":"," ">>)] >>],
      [cls |-> "WordTools", fn |-> "read_word_document",
       guard |-> Text(<<"E","r","r","o","r",":"," ","p","y","t","h","o","n","-","d","o","c","x"," ","i","s"," ","n","o","t"," ","i","n","s","t","a","l","l","e","d">>),
       before |-> {},
       handlers |-> << [catch |-> "Exception", payload |-> Text(<<"E","r","r","o","r"," ","r","e","a","d","i","n","g"," ","W","o","r","d"," ","d","o","c","u","m","e","n","t",":"," ">>)] >>],
      [cls |-> "WordTools", fn |-> "add_bullet_list",
       guard |-> Text(<<"E","r","r","o","r",":"," ","p","y","t","h","o","n","-","d","o","c","x"," ","i","s"," ","n","o","t"," ","i","n","s","t","a","l","l","e","d">>),
       before |-> {},
       handlers |-> << [catch |-> "Exception", payload |-> Text(<<"E","r","r","o","r"," ","a","d","d","i","n","g"," ","b","u","l","l","e","t"," ","l","i","s","t",":"," ">>)] >>] }

PowerPointToolsTable ==
    {
      [cls |-> "PowerPointTools", fn |-> "create_presentation",
       guard |-> Text(<<"E","r","r","o","r",":"," ","p","y","t","h","o","n","-","p","p","t","x"," ","i","s"," ","n","o","t"," ","i","n","s","t","a","l","l","e","d">>),
       before |-> {},
       handlers |-> << [catch |-> "Exception", payload |-> Text(<<"E","r","r","o","r"," ","c","r","e","a","t","i","n","g"," ","p","r","e","s","e","n","t","a","t","i","o","n",":"," ">>)] >>],
      [cls |-> "PowerPointTools", fn |-> "add_title_slide",
       guard |-> Text(<<"E","r","r","o","r",":"," ","p","y","t","h","o","n","-","p","p","t","x"," ","i","s"," ","n","o","t"," ","i","n","s","t","a","l","l","e","d">>),
       before |-> {},
       handlers |-> << [catch |-> "Exception", payload |-> Text(<<"E","r","r","o","r"," ","a","d","d","i","n","g"," ","t","i","t","l","e"," ","s","l","i","d","e",":"," ">>)] >>],
      [cls |-> "PowerPointTools", fn |-> "add_content_slide",
       guard |-> Text(<<"E","r","r","o","r",":"," ","p","y","t","h","o","n","-","p","p","t","x"," ","i","s"," ","n","o","t"," ","i","n","s","t","a","l","l","e","d">>),
       before |-> {},
       handlers |-> << [catch |-> "Exception", payload |-> Text(<<"E","r","r","o","r"," ","a","d","d","i","n","g"," ","c","o","n","t","e","n","t"," ","s","l","i","d","e",":"," ">>)] >>],
      [cls |-> "PowerPointTools", fn |-> "add_blank_slide",
       guard |-> Text(<<"E","r","r","o","r",":"," ","p","y","t","h","o","n","-","p","p","t","x"," ","i","s"," ","n","o","t"," ","i","n","s","t","a","l","l","e","d">>),
       before |-> {},
       handlers |-> << [catch |-> "Exception", payload |-> Text(<<"E","r","r","o","r"," ","a","d","d","i","n","g"," ","b","l","a","n","k"," ","s","l","i","d","e",":"," ">>)] >>],
      [cls |-> "PowerPointTools", fn |-> "add_text_box",
       guard |-> Text(<<"E","r","r","o","r",":"," ","p","y","t","h","o","n","-","p","p","t","x"," ","i","s"," ","n","o","t"," ","i","n","s","t","a","l","l","e","d">>),
       before |-> {},
       handlers |-> << [catch |-> "Exception", payload |-> Text(<<"E","r","r","o","r"," ","a","d","d","i","n","g"," ","t","e","x","t"," ","b","o","x",":"," ">>)] >>],
      [cls |-> "PowerPointTools", fn |-> "get_slide_count",
       guard |-> Text(<<"E","r","r","o","r",":"," ","p","y","t","h","o","n","-","p","p","t","x"," ","i","s"," ","n","o","t"," ","i","n","s","t","a","l","l","e","d">>),
       before |-> {},
       handlers |-> << [catch |-> "Exception", payload |-> Text(<<"E","r","r","o","r"," ","r","e","a","d","i","n","g"," ","p","r","e","s","e","n","t","a","t","i","o","n",":"," ">>)] >>],
      [cls |-> "PowerPointTools", fn |-> "read_slide_text",
       guard |-> Text(<<"E","r","r","o","r",":"," ","p","y","t","h","o","n","-","p","p","t","x"," ","i","s"," ","n","o","t"," ","i","n","s","t","a","l","l","e","d">>),
       before |-> {},
       handlers |-> << [catch |-> "Exception", payload |-> Text(<<"E","r","r","o","r"," ","r","e","a","d","i","n","g"," ","s","l","i","d","e",":"," ">>)] >>] }

PDFToolsTable ==
    {
      [cls |-> "PDFTools", fn |-> "create_pdf",
       guard |-> Text(<<"E","r","r","o","r",":"," ","r","e","p","o","r","t","l","a","b"," ","i","s"," ","n","o","t"," ","i","n","s","t","a","l","l","e","d">>),
       before |-> {},
       handlers |-> << [catch |-> "Exception", payload |-> Text(<<"E","r","r","o","r"," ","c","r","e","a","t","i","n","g"," ","P","D","F",":"," ">>)] >>],
      [cls |-> "PDFTools", fn |-> "extract_pdf_text",
       guard |-> Text(<<"E","r","r","o","r",":"," ","P","y","P","D","F","2"," ","i","s"," ","n","o","t"," ","i","n","s","t","a","l","l","e","d">>),
       before |-> {},
       handlers |-> << [catch |-> "Exception", payload |-> Text(<<"E","r","r","o","r"," ","e","x","t","r","a","c","t","i","n","g"," ","t","e","x","t"," ","f","r","o","m"," ","P","D","F",":"," ">>)] >>],
      [cls |-> "PDFTools", fn |-> "merge_pdfs",
       guard |-> Text(<<"E","r","r","o","r",":"," ","P","y","P","D","F","2"," ","i","s"," ","n","o","t"," ","i","n","s","t","a","l","l","e","d">>),
       before |-> {},
       handlers |-> << [catch |-> "Exception", payload |-> Text(<<"E","r","r","o","r"," ","m","e","r","g","i","n","g"," ","P","D","F","s",":"," ">>)] >>],
      [cls |-> "PDFTools", fn |-> "split_pdf",
       guard |-> Text(<<"E","r","r","o","r",":"," ","P","y","P","D","F","2"," ","i","s"," ","n","o","t"," ","i","n","s","t","a","l","l","e","d">>),
       before |-> {},
       handlers |-> << [catch |-> "Exception", payload |-> Text(<<"E","r","r","o","r"," ","s","p","l","i","t","t","i","n","g"," ","P","D","F",":"," ">>)] >>],
      [cls |-> "PDFTools", fn |-> "get_pdf_info",
       guard |-> Text(<<"E","r","r","o","r",":"," ","P","y","P","D","F","2"," ","i","s"," ","n","o","t"," ","i","n","s","t","a","l","l","e","d">>),
       before |-> {},
       handlers |-> << [catch |-> "Exception", payload |-> Text(<<"E","r","r","o","r"," ","r","e","a","d","i","n","g"," ","P","D","F"," ","i","n","f","o",":"," ">>)] >>],
      [cls |-> "PDFTools", fn |-> "extract_pdf_page",
       guard |-> Text(<<"E","r","r","o","r",":"," ","P","y","P","D","F","2"," ","i","s"," ","n","o","t"," ","i","n","s","t","a","l","l","e","d">>),
       before |-> {},
       handlers |-> << [catch |-> "Exception", payload |-> Text(<<"E","r","r","o","r"," ","e","x","t","r","a","c","t","i","n","g"," ","p","a","g","e",":"," ">>)] >>],
      [cls |-> "PDFTools", fn |-> "rotate_pdf_pages",
       guard |-> Text(<<"E","r","r","o","r",":"," ","P","y","P","D","F","2"," ","i","s"," ","n","o","t"," ","i","n","s","t","a","l","l","e","d">>),
       before |-> {},
       handlers |-> << [catch |-> "Exception", payload |-> Text(<<"E","r","r","o","r"," ","r","o","t","a","t","i","n","g"," ","P","D","F",":"," ">>)] >>] }

WebToolsTable ==
    {
      [cls |-> "WebTools", fn |-> "fetch_webpage",
       guard |-> Text(<<"E","r","r","o","r",":"," ","r","e","q","u","e","s","t","s"," ","i","s"," ","n","o","t"," ","i","n","s","t","a","l","l","e","d">>),
       before |-> {},
       handlers |-> << [catch |-> "Exception", payload |-> Text(<<"E","r","r","o","r"," ","f","e","t","c","h","i","n","g"," ","w","e","b","p","a","g","e",":"," ">>)] >>],
      [cls |-> "WebTools", fn |-> "extract_text_from_url",
       guard |-> Text(<<"E","r","r","o","r",":"," ","r","e","q","u","e","s","t","s"," ","a","n","d"," ","b","e","a","u","t","i","f","u","l","s","o","u","p","4"," ","a","r","e"," ","r","e","q","u","i","r","e","d">>),
       before |-> {},
       handlers |-> << [catch |-> "Exception", payload |-> Text(<<"E","r","r","o","r"," ","e","x","t","r","a","c","t","i","n","g"," ","t","e","x","t",":"," ">>)] >>],
      [cls |-> "WebTools", fn |-> "extract_links",
       guard |-> Text(<<"E","r","r","o","r",":"," ","r","e","q","u","e","s","t","s"," ","a","n","d"," ","b","e","a","u","t","i","f","u","l","s","o","u","p","4"," ","a","r","e"," ","r","e","q","u","i","r","e","d">>),
       before |-> {},
       handlers |-> << [catch |-> "Exception", payload |-> Text(<<"E","r","r","o","r"," ","e","x","t","r","a","c","t","i","n","g"," ","l","i","n","k","s",":"," ">>)] >>],
      [cls |-> "WebTools", fn |-> "download_file",
       guard |-> Text(<<"E","r","r","o","r",":"," ","r","e","q","u","e","s","t","s"," ","i","s"," ","n","o","t"," ","i","n","s","t","a","l","l","e","d">>),
       before |-> {},
       handlers |-> << [catch |-> "Exception", payload |-> Text(<<"E","r","r","o","r"," ","d","o","w","n","l","o","a","d","i","n","g"," ","f","i","l","e",":"," ">>)] >>],
      [cls |-> "WebTools", fn |-> "make_get_request",
       guard |-> Text(<<"E","r","r","o","r",":"," ","r","e","q","u","e","s","t","s"," ","i","s"," ","n","o","t"," ","i","n","s","t","a","l","l","e","d">>),
       before |-> {},
       handlers |-> << [catch |-> "Exception", payload |-> Text(<<"E","r","r","o","r"," ","m","a","k","i","n","g"," ","G","E","T"," ","r","e","q","u","e","s","t",":"," ">>)] >>],
      [cls |-> "WebTools", fn |-> "make_post_request",
       guard |-> Text(<<"E","r","r","o","r",":"," ","r","e","q","u","e","s","t","s"," ","i","s"," ","n","o","t"," ","i","n","s","t","a","l","l","e","d">>),
       before |-> {},
       handlers |-> << [catch |-> "Exception", payload |-> Text(<<"E","r","r","o","r"," ","m","a","k","i","n","g"," ","P","O","S","T"," ","r","e","q","u","e","s","t",":"," ">>)] >>],
      [cls |-> "WebTools", fn |-> "extract_images",
       guard |-> Text(<<"E","r","r","o","r",":"," ","r","e","q","u","e","s","t","s"," ","a","n","d"," ","b","e","a","u","t","i","f","u","l","s","o","u","p","4"," ","a","r","e"," ","r","e","q","u","i","r","e","d">>),
       before |-> {},
       handlers |-> << [catch |-> "Exception", payload |-> Text(<<"E","r","r","o","r"," ","e","x","t","r","a","c","t","i","n","g"," ","i","m","a","g","e","s",":"," ">>)] >>],
      [cls |-> "WebTools", fn |-> "find_elements_by_tag",
       guard |-> Text(<<"E","r","r","o","r",":"," ","r","e","q","u","e","s","t","s"," ","a","n","d"," ","b","e","a","u","t","i","f","u","l","s","o","u","p","4"," ","a","r","e"," ","r","e","q","u","i","r","e","d">>),
       before |-> {},
       handlers |-> << [catch |-> "Exception", payload |-> Text(<<"E","r","r","o","r"," ","f","i","n","d","i","n","g"," ","e","l","e","m","e","n","t","s",":"," ">>)] >>] }

ToolTable ==
    ShellToolTable \cup FileIOToolsTable \cup ExcelToolsTable \cup CSVToolsTable \cup WordToolsTable \cup
    PowerPointToolsTable \cup PDFToolsTable \cup WebToolsTable

\* the payload of the first except clause, from clause i on, that catches
\* an exception of class e; NoGuard when none does
RECURSIVE handle(_, _, _)
handle(handlers, i, e) ==
    IF i > Len(handlers) THEN NoGuard
    ELSE IF IsSubclass(e, handlers[i].catch) THEN handlers[i].payload
    ELSE handle(handlers, i + 1, e)

\* what a call of tool function t returns when the test in front of the try
\* statement fires (outcome "guard"), when the library calls return
\* (outcome "return") and when they raise an exception (its class); an
\* exception raised by a statement in front of the try statement (at
\* "before") has no handler around it
tool_call(t, at, outcome) ==
    IF at = "before" THEN [result |-> [raised |-> outcome], escaped |-> TRUE]
    ELSE IF outcome = "guard" THEN [result |-> t.guard, escaped |-> FALSE]
    ELSE IF outcome = "return"
    THEN [result |-> [kind |-> "value"], escaped |-> FALSE]
    ELSE IF handle(t.handlers, 1, outcome) = NoGuard
    THEN [result |-> [raised |-> outcome], escaped |-> TRUE]
    ELSE [result |-> handle(t.handlers, 1, outcome), escaped |-> FALSE]

\* the outcomes a call of t can have: in front of the try statement the
\* exceptions its statements raise for some argument value (t.before), in
\* the try statement a return or any exception
Outcomes(t, at) ==
    IF at = "before" THEN t.before
    ELSE {"return"} \cup Exceptions \cup (IF t.guard = NoGuard THEN {} ELSE {"guard"})

CallTool ==
    \E t \in ToolTable :
        \E at \in {"before", "try"} :
            \E outcome \in Outcomes(t, at) :
                LET r == tool_call(t, at, outcome)
                IN  /\ last' = [op |-> "tool", cls |-> t.cls, fn |-> t.fn,
                                at |-> at, outcome |-> outcome]
                    /\ result' = r.result
                    /\ escaped' = r.escaped
                    /\ UNCHANGED <<fs, started, calls, chat>>

NextTools == CallTool

SpecTools == Init /\ [][NextTools]_vars

(***************************************************************************)
(* Properties of the error handling                                        *)
(***************************************************************************)
\* a plain text that begins with "Error", or a JSON object with an error key
ErrorPayload(r) ==
    /\ "kind" \in DOMAIN r
    /\ \/ r.kind = "text" /\ IsPrefix(<<"E","r","r","o","r">>, r.text)
       \/ r.kind = "json" /\ "error" \in r.keys

\* C2: no tool function lets an exception reach its caller: for every tool
\* function and every argument value, a failure during the call is returned
\* as a value, a plain text that begins with "Error" or a JSON object with
\* an error key.
C2_FailuresAreReturned ==
    last.op = "tool" =>
        /\ ~escaped
        /\ last.outcome # "return" => ErrorPayload(result)

=============================================================================
